---- MODULE Spec2Model ----
(***************************************************************************)
(* CslStringList (src/src/cpl.rs): an owning wrapper around GDAL's         *)
(* null-terminated array of null-terminated strings, its borrowing         *)
(* iterator, and the foreign CSL* primitives it calls.                     *)
(*                                                                         *)
(* Strings are sequences of characters; a character is a one-letter TLA+   *)
(* string, with "NUL", "LF" and "CR" standing for the bytes 0, 10 and 13.  *)
(* A handle is a number: 0 is the null pointer, 1..MaxHandles are the      *)
(* addresses the foreign allocator can hand out.                           *)
(***************************************************************************)
EXTENDS Integers, Sequences, FiniteSets, TLC

\* ------------------------------------------------------------------ bounds
MaxInst    == 2   \* CslStringList values that can exist in one run
MaxHandles == 3   \* addresses the foreign allocator can hand out
MaxLen     == 2   \* longest list the run builds
MaxPairs   == 2   \* N of the array handed to try_from
MaxMemLen  == 1   \* longest list of the ownership runs

Insts   == 1..MaxInst
Handles == 1..MaxHandles
NULL    == 0

\* ------------------------------------------------------ strings and inputs
AsciiAlnum == {"a", "A", "b", "x", "1", "2"}

Range(s) == {s[n] : n \in 1..Len(s)}

\* char::is_ascii_alphanumeric
is_ascii_alphanumeric(c) == c \in AsciiAlnum

\* Inputs of the list operations: names and values handed to set_name_value,
\* strings handed to add_string, keys handed to fetch_name_value.
ValidNames   == {<<"a">>, <<"A">>, <<"b", "_">>, <<>>}
InvalidNames == {<<"a", "=">>, <<"a", " ">>}
Names        == ValidNames \cup InvalidNames

ValidValues   == {<<"1">>, <<"=", "2">>}
InvalidValues == {<<"1", "LF">>, <<"CR">>, <<"NUL", "LF">>}
NulValues     == {<<"1", "NUL">>}
Values        == ValidValues \cup InvalidValues \cup NulValues

RawStrings == {<<"x">>, <<"a", "=", "1">>, <<"x", "NUL">>}

QueryKeys == {<<"a">>, <<"A">>, <<"b", "_">>, <<>>, <<"x">>, <<"a", "NUL">>}

\* Inputs of the ownership runs, where the handles matter and the text does not.
MemSetArgs == {<<(<<"a">>), (<<"1">>)>>, <<(<<"a">>), (<<"2">>)>>, <<(<<"a", "=">>), (<<"1">>)>>}
MemRaw     == {<<"x">>}

\* ----------------------------------------------------------- foreign heap
\* The next address the allocator hands out: addresses are not reused.
Fresh(hp) ==
    LET free == {h \in Handles : hp[h].state = "unalloc"}
    IN  IF free = {} THEN {} ELSE {CHOOSE h \in free : \A g \in free : h <= g}

\* A foreign call may only be given null or a live allocation.
ValidHandle(hp, p) == p = NULL \/ hp[p].state = "live"

\* The strings of the array at p (null is the empty list).
Contents(hp, p) == IF p = NULL \/ hp[p].state # "live" THEN <<>> ELSE hp[p].strs

\* The array at p grows or changes to strs: in place, or moved to a new
\* address with the old one released by the call itself.
Place(hp, p, strs) ==
    LET moved == {[ret |-> h,
                   heap |-> IF p = NULL
                            THEN [hp EXCEPT ![h] = [state |-> "live", strs |-> strs]]
                            ELSE [hp EXCEPT ![h] = [state |-> "live", strs |-> strs],
                                            ![p] = [state |-> "freed", strs |-> <<>>]],
                   fault |-> FALSE] : h \in Fresh(hp)}
        inplace == IF p = NULL THEN {}
                   ELSE {[ret |-> p, heap |-> [hp EXCEPT ![p].strs = strs], fault |-> FALSE]}
    IN  moved \cup inplace

\* The outcome of a foreign call that was handed a released handle.
Faulted(hp, p) == {[ret |-> p, heap |-> hp, fault |-> TRUE]}

\* EQUAL of the foreign library: case-insensitive comparison.
ToUpper(c) == IF c = "a" THEN "A" ELSE IF c = "b" THEN "B" ELSE IF c = "x" THEN "X" ELSE c
Fold(s) == [n \in 1..Len(s) |-> ToUpper(s[n])]
KeyEq(k1, k2) == Fold(k1) = Fold(k2)

\* Position of the first '=' of s, 0 when there is none.
EqPos(s) ==
    IF \E n \in 1..Len(s) : s[n] = "="
    THEN CHOOSE n \in 1..Len(s) : s[n] = "=" /\ \A m \in 1..(n - 1) : s[m] # "="
    ELSE 0

HasKey(s, key) == EqPos(s) > 0 /\ KeyEq(SubSeq(s, 1, EqPos(s) - 1), key)
ValueOf(s) == SubSeq(s, EqPos(s) + 1, Len(s))

\* Index of the first entry of strs whose key is key, 0 when there is none.
FindKey(strs, key) ==
    IF \E n \in 1..Len(strs) : HasKey(strs[n], key)
    THEN CHOOSE n \in 1..Len(strs) :
            HasKey(strs[n], key) /\ \A m \in 1..(n - 1) : ~HasKey(strs[m], key)
    ELSE 0

\* set-by-key: overwrite the entry of that key, or append NAME=VALUE.
SetByKey(strs, name, value) ==
    LET n == FindKey(strs, name)
        e == name \o <<"=">> \o value
    IN  IF n = 0 THEN Append(strs, e) ELSE [strs EXCEPT ![n] = e]

CSLSetNameValue(hp, p, name, value) ==
    IF ~ValidHandle(hp, p) THEN Faulted(hp, p)
    ELSE Place(hp, p, SetByKey(Contents(hp, p), name, value))

CSLAddString(hp, p, s) ==
    IF ~ValidHandle(hp, p) THEN Faulted(hp, p)
    ELSE Place(hp, p, Append(Contents(hp, p), s))

\* duplicate: a deep copy at a new address; the empty list duplicates to null.
CSLDuplicate(hp, p) ==
    IF ~ValidHandle(hp, p) THEN Faulted(hp, p)
    ELSE IF p = NULL THEN {[ret |-> NULL, heap |-> hp, fault |-> FALSE]}
    ELSE {[ret |-> h,
           heap |-> [hp EXCEPT ![h] = [state |-> "live", strs |-> hp[p].strs]],
           fault |-> FALSE] : h \in Fresh(hp)}

\* destroy: releases the allocation; safe on null.
CSLDestroy(hp, p) ==
    IF ~ValidHandle(hp, p) THEN [heap |-> hp, fault |-> TRUE]
    ELSE IF p = NULL THEN [heap |-> hp, fault |-> FALSE]
    ELSE [heap |-> [hp EXCEPT ![p] = [state |-> "freed", strs |-> <<>>]], fault |-> FALSE]

CSLCount(hp, p) == Len(Contents(hp, p))

\* lookup-by-key: the value of the first entry of that key, or a null pointer.
CSLFetchNameValue(hp, p, key) ==
    LET strs == Contents(hp, p)
        n == FindKey(strs, key)
    IN  IF n = 0 THEN [null |-> TRUE, str |-> <<>>]
        ELSE [null |-> FALSE, str |-> ValueOf(strs[n])]

\* --------------------------------------------------------- host conversions
\* CString::new: fails on an interior null byte.
CString_new(s) == [ok |-> "NUL" \notin Range(s), ptr |-> s]

\* utils::_string: the bytes of a C string as an owned String.
string_(c) == c

\* utils::_string_tuple: split at the first delimiter; None when it is absent.
string_tuple(s) ==
    IF EqPos(s) = 0 THEN [some |-> FALSE, k |-> <<>>, v |-> <<>>]
    ELSE [some |-> TRUE, k |-> SubSeq(s, 1, EqPos(s) - 1), v |-> ValueOf(s)]

\* ------------------------------------------------------------ CslStringList
\* The outcome of one call on a list: its result, the handle the list holds
\* afterwards, the foreign heap afterwards, the foreign calls it made, and
\* whether one of them was handed a released handle.
Outcome(result, p, hp, ffi, fault) ==
    [result |-> result, list_ptr |-> p, heap |-> hp, ffi |-> ffi, fault |-> fault]

\* CslStringList::new
new == [status |-> "live", list_ptr |-> NULL]

\* CslStringList::as_ptr
as_ptr(p) == p

\* A set_name_value that drops the handle the foreign call returns.
set_name_value_keep_ptr(hp, p, name, value) ==
    IF ~(\A n \in 1..Len(name) : is_ascii_alphanumeric(name[n]) \/ name[n] = "_")
    THEN {Outcome("BadArgument", p, hp, <<>>, FALSE)}
    ELSE IF \E n \in 1..Len(value) : value[n] = "LF" \/ value[n] = "CR"
    THEN {Outcome("BadArgument", p, hp, <<>>, FALSE)}
    ELSE IF ~CString_new(name).ok \/ ~CString_new(value).ok
    THEN {Outcome("NulError", p, hp, <<>>, FALSE)}
    ELSE {Outcome("Ok", p, r.heap, <<"CSLSetNameValue">>, r.fault) :
            r \in CSLSetNameValue(hp, p, CString_new(name).ptr, CString_new(value).ptr)}

\* A set_name_value that hands its arguments over in the wrong order.
set_name_value_args_swapped(hp, p, name, value) ==
    IF ~(\A n \in 1..Len(name) : is_ascii_alphanumeric(name[n]) \/ name[n] = "_")
    THEN {Outcome("BadArgument", p, hp, <<>>, FALSE)}
    ELSE IF \E n \in 1..Len(value) : value[n] = "LF" \/ value[n] = "CR"
    THEN {Outcome("BadArgument", p, hp, <<>>, FALSE)}
    ELSE IF ~CString_new(name).ok \/ ~CString_new(value).ok
    THEN {Outcome("NulError", p, hp, <<>>, FALSE)}
    ELSE {Outcome("Ok", r.ret, r.heap, <<"CSLSetNameValue">>, r.fault) :
            r \in CSLSetNameValue(hp, p, CString_new(value).ptr, CString_new(name).ptr)}

\* A set_name_value that appends NAME=VALUE instead of setting by key.
set_name_value_appends(hp, p, name, value) ==
    IF ~(\A n \in 1..Len(name) : is_ascii_alphanumeric(name[n]) \/ name[n] = "_")
    THEN {Outcome("BadArgument", p, hp, <<>>, FALSE)}
    ELSE IF \E n \in 1..Len(value) : value[n] = "LF" \/ value[n] = "CR"
    THEN {Outcome("BadArgument", p, hp, <<>>, FALSE)}
    ELSE IF ~CString_new(name).ok \/ ~CString_new(value).ok
    THEN {Outcome("NulError", p, hp, <<>>, FALSE)}
    ELSE {Outcome("Ok", r.ret, r.heap, <<"CSLAddString">>, r.fault) :
            r \in CSLAddString(hp, p, CString_new(name).ptr \o <<"=">> \o CString_new(value).ptr)}

\* A set_name_value that takes the entry of the key out and appends the new one.
set_name_value_move_to_end(hp, p, name, value) ==
    IF ~(\A n \in 1..Len(name) : is_ascii_alphanumeric(name[n]) \/ name[n] = "_")
    THEN {Outcome("BadArgument", p, hp, <<>>, FALSE)}
    ELSE IF \E n \in 1..Len(value) : value[n] = "LF" \/ value[n] = "CR"
    THEN {Outcome("BadArgument", p, hp, <<>>, FALSE)}
    ELSE IF ~CString_new(name).ok \/ ~CString_new(value).ok
    THEN {Outcome("NulError", p, hp, <<>>, FALSE)}
    ELSE LET strs == Contents(hp, p)
             n == FindKey(strs, name)
             rest == IF n = 0 THEN strs
                     ELSE SubSeq(strs, 1, n - 1) \o SubSeq(strs, n + 1, Len(strs))
         IN  {Outcome("Ok", r.ret, r.heap, <<"CSLSetNameValue">>, r.fault) :
                r \in IF ~ValidHandle(hp, p) THEN Faulted(hp, p)
                      ELSE Place(hp, p, Append(rest, name \o <<"=">> \o value))}

\* A set_name_value that converts and checks the value only after the call.
set_name_value_late_check(hp, p, name, value) ==
    IF ~(\A n \in 1..Len(name) : is_ascii_alphanumeric(name[n]) \/ name[n] = "_")
    THEN {Outcome("BadArgument", p, hp, <<>>, FALSE)}
    ELSE IF ~CString_new(name).ok \/ ~CString_new(value).ok
    THEN {Outcome("NulError", p, hp, <<>>, FALSE)}
    ELSE {Outcome(IF \E n \in 1..Len(value) : value[n] = "LF" \/ value[n] = "CR"
                  THEN "BadArgument" ELSE "Ok",
                  r.ret, r.heap, <<"CSLSetNameValue">>, r.fault) :
            r \in CSLSetNameValue(hp, p, CString_new(name).ptr, CString_new(value).ptr)}

\* A set_name_value that checks the value for line feeds only.
set_name_value_lf_only(hp, p, name, value) ==
    IF ~(\A n \in 1..Len(name) : is_ascii_alphanumeric(name[n]) \/ name[n] = "_")
    THEN {Outcome("BadArgument", p, hp, <<>>, FALSE)}
    ELSE IF \E n \in 1..Len(value) : value[n] = "LF"
    THEN {Outcome("BadArgument", p, hp, <<>>, FALSE)}
    ELSE IF ~CString_new(name).ok \/ ~CString_new(value).ok
    THEN {Outcome("NulError", p, hp, <<>>, FALSE)}
    ELSE {Outcome("Ok", r.ret, r.heap, <<"CSLSetNameValue">>, r.fault) :
            r \in CSLSetNameValue(hp, p, CString_new(name).ptr, CString_new(value).ptr)}

\* CslStringList::set_name_value
set_name_value(hp, p, name, value) ==
    IF ~(\A n \in 1..Len(name) : is_ascii_alphanumeric(name[n]) \/ name[n] = "_")
    THEN {Outcome("BadArgument", p, hp, <<>>, FALSE)}
    ELSE IF \E n \in 1..Len(value) : value[n] = "LF" \/ value[n] = "CR"
    THEN {Outcome("BadArgument", p, hp, <<>>, FALSE)}
    ELSE IF ~CString_new(name).ok \/ ~CString_new(value).ok
    THEN {Outcome("NulError", p, hp, <<>>, FALSE)}
    ELSE {Outcome("Ok", r.ret, r.heap, <<"CSLSetNameValue">>, r.fault) :
            r \in CSLSetNameValue(hp, p, CString_new(name).ptr, CString_new(value).ptr)}

\* An add_string that assigns by key when the value is a KEY=VALUE string.
add_string_by_key(hp, p, value) ==
    IF ~CString_new(value).ok
    THEN {Outcome("NulError", p, hp, <<>>, FALSE)}
    ELSE IF EqPos(value) > 0
    THEN {Outcome("Ok", r.ret, r.heap, <<"CSLSetNameValue">>, r.fault) :
            r \in CSLSetNameValue(hp, p, SubSeq(value, 1, EqPos(value) - 1), ValueOf(value))}
    ELSE {Outcome("Ok", r.ret, r.heap, <<"CSLAddString">>, r.fault) :
            r \in CSLAddString(hp, p, CString_new(value).ptr)}

\* CslStringList::add_string
add_string(hp, p, value) ==
    IF ~CString_new(value).ok
    THEN {Outcome("NulError", p, hp, <<>>, FALSE)}
    ELSE {Outcome("Ok", r.ret, r.heap, <<"CSLAddString">>, r.fault) :
            r \in CSLAddString(hp, p, CString_new(value).ptr)}

\* A fetch_name_value that reads a null result as the empty string.
fetch_name_value_null_as_empty(hp, p, key) ==
    IF ~CString_new(key).ok
    THEN [result |-> "NulError", some |-> FALSE, value |-> <<>>, ffi |-> <<>>,
          fault |-> FALSE]
    ELSE LET c_value == CSLFetchNameValue(hp, as_ptr(p), CString_new(key).ptr)
         IN  [result |-> "Ok",
              some   |-> TRUE,
              value  |-> IF c_value.null THEN <<>> ELSE string_(c_value.str),
              ffi    |-> <<"CSLFetchNameValue">>,
              fault  |-> ~ValidHandle(hp, p)]

\* CslStringList::fetch_name_value: Err, Ok(None) or Ok(Some(value))
fetch_name_value(hp, p, key) ==
    IF ~CString_new(key).ok
    THEN [result |-> "NulError", some |-> FALSE, value |-> <<>>, ffi |-> <<>>,
          fault |-> FALSE]
    ELSE LET c_value == CSLFetchNameValue(hp, as_ptr(p), CString_new(key).ptr)
         IN  [result |-> "Ok",
              some   |-> ~c_value.null,
              value  |-> IF c_value.null THEN <<>> ELSE string_(c_value.str),
              ffi    |-> <<"CSLFetchNameValue">>,
              fault  |-> ~ValidHandle(hp, p)]

\* A len that counts the terminator of the array as well.
len_counts_terminator(hp, p) == CSLCount(hp, as_ptr(p)) + 1

\* CslStringList::len
len(hp, p) == CSLCount(hp, as_ptr(p))

\* CslStringList::is_empty
is_empty(hp, p) == len(hp, p) = 0

\* Drop for CslStringList
drop(hp, p) ==
    LET r == CSLDestroy(hp, p)
    IN  Outcome("Ok", p, r.heap, <<"CSLDestroy">>, r.fault)

\* A clone that copies the pointer instead of the list.
clone_shared(hp, p) == {Outcome("Ok", p, hp, <<>>, FALSE)}

\* A clone that releases the list it copied.
clone_moves_source(hp, p) ==
    {Outcome("Ok", r.ret, CSLDestroy(r.heap, p).heap, <<"CSLDuplicate", "CSLDestroy">>,
             r.fault) : r \in CSLDuplicate(hp, p)}

\* Clone for CslStringList: the handle of the new instance
clone(hp, p) ==
    {Outcome("Ok", r.ret, r.heap, <<"CSLDuplicate">>, r.fault) : r \in CSLDuplicate(hp, p)}

\* A try_from that goes on to the next pair when set_name_value fails.
RECURSIVE try_from_loop_ignores_err(_, _, _, _, _)
try_from_loop_ignores_err(hp, p, pairs, k, ffi) ==
    IF k > Len(pairs) THEN {Outcome("Ok", p, hp, ffi, FALSE)}
    ELSE UNION {
           IF o.fault THEN {Outcome(o.result, o.list_ptr, o.heap, ffi \o o.ffi, TRUE)}
           ELSE try_from_loop_ignores_err(o.heap, o.list_ptr, pairs, k + 1, ffi \o o.ffi)
           : o \in set_name_value(hp, p, pairs[k][1], pairs[k][2]) }

\* TryFrom: the loop over pairs[k..], on the list being built; a failing
\* set_name_value returns early, and the list being built is dropped.
RECURSIVE try_from_loop(_, _, _, _, _)
try_from_loop(hp, p, pairs, k, ffi) ==
    IF k > Len(pairs) THEN {Outcome("Ok", p, hp, ffi, FALSE)}
    ELSE UNION {
           IF o.fault THEN {Outcome(o.result, o.list_ptr, o.heap, ffi \o o.ffi, TRUE)}
           ELSE IF o.result # "Ok"
           THEN LET d == drop(o.heap, o.list_ptr)
                IN  {Outcome(o.result, o.list_ptr, d.heap, ffi \o o.ffi \o d.ffi, d.fault)}
           ELSE try_from_loop(o.heap, o.list_ptr, pairs, k + 1, ffi \o o.ffi)
           : o \in set_name_value(hp, p, pairs[k][1], pairs[k][2])}

\* A try_from whose loop leaves out the first pair.
try_from_from_second(hp, pairs) == try_from_loop(hp, new.list_ptr, pairs, 2, <<>>)

try_from(hp, pairs) == try_from_loop(hp, new.list_ptr, pairs, 1, <<>>)

\* ------------------------------------------------------ CslStringListIterator
\* CslStringListIterator::new
iter_new(hp, i, p) ==
    [active |-> TRUE, list |-> i, idx |-> 0, count |-> len(hp, p),
     nones |-> 0, yielded |-> <<>>, last |-> "", oob |-> FALSE]

\* An is_done that lets the index reach count before it says done.
is_done_past_end(t) == t.idx > t.count

\* CslStringListIterator::is_done
is_done(t) == t.idx >= t.count

\* Iterator::next: the iterator after the call; last is the value returned
\* ("None" or "Some"), nones the number of calls that returned None (counted
\* up to 2), yielded the pairs returned before the first None, oob whether
\* the read of slice[idx] left the array.
next(hp, p, t) ==
    LET strs == Contents(hp, p)
        none == [t EXCEPT !.last = "None",
                          !.nones = IF t.nones < 2 THEN t.nones + 1 ELSE t.nones]
    IN  IF is_done(t) THEN none
        ELSE IF p = NULL \/ t.idx >= t.count \/ t.idx + 1 > Len(strs) + 1
        THEN [none EXCEPT !.oob = TRUE]
        ELSE IF t.idx + 1 = Len(strs) + 1 THEN none
        ELSE LET field == strs[t.idx + 1]
                 kv == string_tuple(field)
             IN  IF kv.some
                 THEN [t EXCEPT !.idx = t.idx + 1, !.last = "Some",
                          !.yielded = IF t.nones = 0 THEN Append(t.yielded, <<kv.k, kv.v>>)
                                      ELSE t.yielded]
                 ELSE [none EXCEPT !.idx = t.idx + 1]

\* Debug::fmt: the text written, "{k}={v}\n" for each pair the for loop over
\* iter() receives; the loop ends at the first None.
RECURSIVE fmt_loop(_, _, _, _)
fmt_loop(hp, p, t, out) ==
    LET t2 == next(hp, p, t)
    IN  IF t2.last # "Some" THEN out
        ELSE LET kv == t2.yielded[Len(t2.yielded)]
             IN  fmt_loop(hp, p, t2, out \o kv[1] \o <<"=">> \o kv[2] \o <<"LF">>)

fmt(hp, p) == fmt_loop(hp, p, iter_new(hp, 0, p), <<>>)

NoIter ==
    [active |-> FALSE, list |-> 0, idx |-> 0, count |-> 0,
     nones |-> 0, yielded |-> <<>>, last |-> "", oob |-> FALSE]

\* ------------------------------------------------------------------- state
VARIABLES
    inst,      \* the CslStringList values: status and list_ptr
    heap,      \* the foreign allocator: per address, its state and its strings
    it,        \* the iterator, when one is alive
    lastCall,  \* the call made last: operation, arguments, result
    inserted,  \* per list, the keys (case-folded) ever put into it
    added,     \* per list, whether add_string ever put an entry into it
    ffiFault   \* a foreign call was handed a released handle

vars == <<inst, heap, it, lastCall, inserted, added, ffiFault>>

\* src: the list that self was cloned from, by this call or by the call before.
\* again: the call is a successful set_name_value that follows, on the same
\* list, a successful set_name_value of the same name and another value.
Call(op, self, src, name, value, pairs, result, some, ret, ffi) ==
    [op |-> op, self |-> self, name |-> name, value |-> value,
     src |-> IF op = "clone" THEN src
             ELSE IF lastCall.op = "clone" /\ lastCall.self = self THEN lastCall.src
             ELSE 0,
     pairs |-> pairs, result |-> result, some |-> some, ret |-> ret, ffi |-> ffi,
     again |-> /\ op = "set_name_value" /\ result = "Ok"
               /\ lastCall.op = "set_name_value" /\ lastCall.result = "Ok"
               /\ lastCall.self = self /\ lastCall.name = name
               /\ lastCall.value # value]

Live(i) == inst[i].status = "live"
Borrowed(i) == it.active /\ it.list = i
Entries(i) == Contents(heap, inst[i].list_ptr)

\* the key of an entry as the allocator compares it; raw tokens have none
KeysOf(strs) == {Fold(SubSeq(strs[n], 1, EqPos(strs[n]) - 1)) :
                    n \in {m \in 1..Len(strs) : EqPos(strs[m]) > 0}}

Init ==
    /\ inst = [i \in Insts |-> [status |-> "none", list_ptr |-> NULL]]
    /\ heap = [h \in Handles |-> [state |-> "unalloc", strs |-> <<>>]]
    /\ it = NoIter
    /\ lastCall = [op |-> "", self |-> 0, src |-> 0, name |-> <<>>, value |-> <<>>,
                   pairs |-> <<>>, result |-> "", some |-> FALSE, ret |-> <<>>,
                   ffi |-> <<>>, again |-> FALSE]
    /\ inserted = [i \in Insts |-> {}]
    /\ added = [i \in Insts |-> FALSE]
    /\ ffiFault = FALSE

\* let l = CslStringList::new();
New(i) ==
    /\ inst[i].status = "none"
    /\ \A j \in 1..(i - 1) : inst[j].status # "none"
    /\ inst' = [inst EXCEPT ![i] = new]
    /\ lastCall' = Call("new", i, 0, <<>>, <<>>, <<>>, "Ok", FALSE, <<>>, <<>>)
    /\ UNCHANGED <<heap, it, inserted, added, ffiFault>>

\* l.set_name_value(name, value)
SetNameValue(i, name, value) ==
    /\ Live(i) /\ ~Borrowed(i)
    /\ \E o \in set_name_value(heap, inst[i].list_ptr, name, value) :
          /\ Len(Contents(o.heap, o.list_ptr)) <= MaxLen
          /\ inst' = [inst EXCEPT ![i].list_ptr = o.list_ptr]
          /\ heap' = o.heap
          /\ ffiFault' = (ffiFault \/ o.fault)
          /\ inserted' = IF o.result = "Ok"
                         THEN [inserted EXCEPT ![i] = @ \cup {Fold(name)}]
                         ELSE inserted
          /\ lastCall' = Call("set_name_value", i, 0, name, value, <<>>,
                              o.result, FALSE, <<>>, o.ffi)
    /\ UNCHANGED <<it, added>>

\* l.add_string(value)
AddString(i, value) ==
    /\ Live(i) /\ ~Borrowed(i)
    /\ \E o \in add_string(heap, inst[i].list_ptr, value) :
          /\ Len(Contents(o.heap, o.list_ptr)) <= MaxLen
          /\ inst' = [inst EXCEPT ![i].list_ptr = o.list_ptr]
          /\ heap' = o.heap
          /\ ffiFault' = (ffiFault \/ o.fault)
          /\ inserted' = IF o.result = "Ok"
                         THEN [inserted EXCEPT ![i] = @ \cup KeysOf(<<value>>)]
                         ELSE inserted
          /\ added' = [added EXCEPT ![i] = @ \/ o.result = "Ok"]
          /\ lastCall' = Call("add_string", i, 0, <<>>, value, <<>>,
                              o.result, FALSE, <<>>, o.ffi)
    /\ UNCHANGED it

\* l.fetch_name_value(key)
FetchNameValue(i, key) ==
    /\ Live(i)
    /\ LET r == fetch_name_value(heap, inst[i].list_ptr, key)
       IN  /\ lastCall' = Call("fetch_name_value", i, 0, key, <<>>, <<>>,
                               r.result, r.some, r.value, r.ffi)
           /\ ffiFault' = (ffiFault \/ r.fault)
    /\ UNCHANGED <<inst, heap, it, inserted, added>>

\* let c = l.clone();
Clone(i, j) ==
    /\ Live(i)
    /\ inst[j].status = "none"
    /\ \A k \in 1..(j - 1) : inst[k].status # "none"
    /\ \E o \in clone(heap, inst[i].list_ptr) :
          /\ inst' = [inst EXCEPT ![j] = [status |-> "live", list_ptr |-> o.list_ptr]]
          /\ heap' = o.heap
          /\ ffiFault' = (ffiFault \/ o.fault)
          /\ lastCall' = Call("clone", j, i, <<>>, <<>>, <<>>, "Ok", FALSE, <<>>, o.ffi)
    /\ inserted' = [inserted EXCEPT ![j] = inserted[i]]
    /\ added' = [added EXCEPT ![j] = added[i]]
    /\ UNCHANGED it

\* l goes out of scope
Drop(i) ==
    /\ Live(i) /\ ~Borrowed(i)
    /\ LET o == drop(heap, inst[i].list_ptr)
       IN  /\ heap' = o.heap
           /\ ffiFault' = (ffiFault \/ o.fault)
           /\ lastCall' = Call("drop", i, 0, <<>>, <<>>, <<>>, "Ok", FALSE, <<>>, o.ffi)
    /\ inst' = [inst EXCEPT ![i] = [status |-> "dropped", list_ptr |-> NULL]]
    /\ UNCHANGED <<it, inserted, added>>

\* the arrays handed to try_from
PairItems ==
    {<<(<<"a">>), (<<"1">>)>>, <<(<<"A">>), (<<"=", "2">>)>>, <<(<<"b", "_">>), (<<"1">>)>>,
     <<(<<"a", "=">>), (<<"1">>)>>, <<(<<"a">>), (<<"1", "NUL">>)>>}

MemPairItems ==
    {<<(<<"a">>), (<<"1">>)>>, <<(<<"a", "=">>), (<<"1">>)>>}

RECURSIVE SeqsUpTo(_, _)
SeqsUpTo(S, n) ==
    IF n = 0 THEN {<<>>}
    ELSE LET shorter == SeqsUpTo(S, n - 1)
         IN  shorter \cup {Append(q, x) : q \in {r \in shorter : Len(r) = n - 1}, x \in S}

\* CslStringList::try_from(&pairs): the value is returned on Ok only
TryFrom(j, pairs) ==
    /\ inst[j].status = "none"
    /\ \A k \in 1..(j - 1) : inst[k].status # "none"
    /\ \E o \in try_from(heap, pairs) :
          /\ inst' = [inst EXCEPT ![j] =
                         IF o.result = "Ok"
                         THEN [status |-> "live", list_ptr |-> o.list_ptr]
                         ELSE [status |-> "dropped", list_ptr |-> NULL]]
          /\ heap' = o.heap
          /\ ffiFault' = (ffiFault \/ o.fault)
          /\ inserted' = [inserted EXCEPT ![j] =
                             IF o.result = "Ok"
                             THEN {Fold(pairs[n][1]) : n \in 1..Len(pairs)} ELSE {}]
          /\ lastCall' = Call("try_from", j, 0, <<>>, <<>>, pairs, o.result, FALSE,
                              <<>>, o.ffi)
    /\ UNCHANGED <<it, added>>

\* let mut it = l.iter();
Iter(i) ==
    /\ Live(i) /\ ~it.active
    /\ it' = iter_new(heap, i, inst[i].list_ptr)
    /\ lastCall' = Call("iter", i, 0, <<>>, <<>>, <<>>, "Ok", FALSE, <<>>, <<"CSLCount">>)
    /\ UNCHANGED <<inst, heap, inserted, added, ffiFault>>

\* it.next()
IterNext ==
    /\ it.active
    /\ it' = next(heap, inst[it.list].list_ptr, it)
    /\ lastCall' = Call("next", it.list, 0, <<>>, <<>>, <<>>, "Ok", it'.last = "Some",
                        <<>>, <<>>)
    /\ UNCHANGED <<inst, heap, inserted, added, ffiFault>>

\* it goes out of scope
IterDrop ==
    /\ it.active
    /\ it' = NoIter
    /\ lastCall' = Call("iter_drop", it.list, 0, <<>>, <<>>, <<>>, "Ok", FALSE, <<>>, <<>>)
    /\ UNCHANGED <<inst, heap, inserted, added, ffiFault>>

\* l.len()
GetLen(i) ==
    /\ Live(i)
    /\ lastCall' = Call("len", i, 0, <<>>, <<>>, <<>>, "Ok", FALSE,
                        <<len(heap, inst[i].list_ptr)>>, <<"CSLCount">>)
    /\ UNCHANGED <<inst, heap, it, inserted, added, ffiFault>>

\* l.is_empty()
IsEmpty(i) ==
    /\ Live(i)
    /\ lastCall' = Call("is_empty", i, 0, <<>>, <<>>, <<>>, "Ok",
                        is_empty(heap, inst[i].list_ptr), <<>>, <<"CSLCount">>)
    /\ UNCHANGED <<inst, heap, it, inserted, added, ffiFault>>

\* l.as_ptr()
AsPtr(i) ==
    /\ Live(i)
    /\ lastCall' = Call("as_ptr", i, 0, <<>>, <<>>, <<>>, "Ok", FALSE,
                        <<as_ptr(inst[i].list_ptr)>>, <<>>)
    /\ UNCHANGED <<inst, heap, it, inserted, added, ffiFault>>

\* format!("{l:?}")
DebugFmt(i) ==
    /\ Live(i)
    /\ lastCall' = Call("fmt", i, 0, <<>>, <<>>, <<>>, "Ok", FALSE,
                        fmt(heap, inst[i].list_ptr), <<"CSLCount">>)
    /\ UNCHANGED <<inst, heap, it, inserted, added, ffiFault>>

\* One list, every input: what the operations compute.
Next ==
    \/ New(1)
    \/ \E name \in Names, value \in Values : SetNameValue(1, name, value)
    \/ \E value \in RawStrings : AddString(1, value)
    \/ \E key \in QueryKeys : FetchNameValue(1, key)
    \/ \E pairs \in SeqsUpTo(PairItems, MaxPairs) : TryFrom(1, pairs)
    \/ Drop(1)

Spec == Init /\ [][Next]_vars

\* Several lists, few inputs: who owns which allocation.
NextMem ==
    \/ \E i \in Insts : New(i)
    \/ \E i \in Insts, nv \in MemSetArgs :
          SetNameValue(i, nv[1], nv[2]) /\ len(heap', inst'[i].list_ptr) <= MaxMemLen
    \/ \E i \in Insts, value \in MemRaw :
          AddString(i, value) /\ len(heap', inst'[i].list_ptr) <= MaxMemLen
    \/ \E i \in Insts, j \in Insts : Clone(i, j)
    \/ \E i \in Insts : Drop(i)
    \/ \E j \in Insts, pairs \in SeqsUpTo(MemPairItems, MaxPairs) : TryFrom(j, pairs)

SpecMem == Init /\ [][NextMem]_vars

\* One list and an iterator over it.
NextIter ==
    \/ New(1)
    \/ \E name \in ValidNames, value \in ValidValues : SetNameValue(1, name, value)
    \/ \E value \in RawStrings : AddString(1, value)
    \/ Iter(1)
    \/ IterNext
    \/ IterDrop
    \/ Drop(1)

SpecIter == Init /\ [][NextIter]_vars

\* The inputs of the writing operations that run between the reading ones.
ReadSetArgs ==
    {<<(<<"a">>), (<<"1">>)>>, <<(<<"b", "_">>), (<<"=", "2">>)>>, <<(<<"a", "=">>), (<<"1">>)>>}
ReadRaw == {<<"x">>, <<"x", "NUL">>}
ReadKeys == {<<"a">>, <<"b", "_">>}

\* One list, its iterator and one clone of it: the operations that read,
\* between the operations that write.
NextRead ==
    \/ New(1)
    \/ \E nv \in ReadSetArgs : SetNameValue(1, nv[1], nv[2])
    \/ \E value \in ReadRaw : AddString(1, value)
    \/ \E key \in ReadKeys : FetchNameValue(1, key)
    \/ GetLen(1)
    \/ IsEmpty(1)
    \/ AsPtr(1)
    \/ DebugFmt(1)
    \/ Iter(1)
    \/ IterNext
    \/ IterDrop
    \/ Clone(1, 2)
    \/ Drop(1)

SpecRead == Init /\ [][NextRead]_vars

\* ================================================================== claims
Owners(h) == {i \in Insts : Live(i) /\ inst[i].list_ptr = h}

\* C1: no foreign call ever receives a released handle (no double free, no
\* use after free), every list holds null or a live allocation, and every
\* live allocation is held by a list that is still alive, so that once every
\* list is dropped nothing the foreign allocator handed out is left
\* unreleased.
C1_MemorySafe ==
    /\ ~ffiFault
    /\ \A i \in Insts : Live(i) => ValidHandle(heap, inst[i].list_ptr)
    /\ \A h \in Handles : heap[h].state = "live" => Owners(h) # {}
    /\ (\A i \in Insts : ~Live(i)) => \A h \in Handles : heap[h].state # "live"

\* every list is gone, allocations were handed out and released, and the
\* last call was a try_from that failed after building part of its list
C1_Witness ==
    /\ \A i \in Insts : inst[i].status = "dropped"
    /\ Cardinality({h \in Handles : heap[h].state = "freed"}) >= 2
    /\ lastCall.op = "try_from" /\ lastCall.result # "Ok"
    /\ lastCall.ffi = <<"CSLSetNameValue", "CSLDestroy">>

\* C2: no two live lists hold the same non-null handle, and after a
\* successful mutation the list holds the live allocation the foreign call
\* returned.
C2_UniqueOwner ==
    /\ \A i, j \in Insts :
          (i # j /\ Live(i) /\ Live(j) /\ inst[i].list_ptr # NULL)
              => inst[i].list_ptr # inst[j].list_ptr
    /\ (lastCall.op \in {"set_name_value", "add_string"} /\ lastCall.result = "Ok")
          => /\ inst[lastCall.self].list_ptr # NULL
             /\ heap[inst[lastCall.self].list_ptr].state = "live"

\* a clone of a non-empty list was just made: two live lists, two handles
C2_Witness ==
    /\ lastCall.op = "clone"
    /\ Live(lastCall.src) /\ inst[lastCall.src].list_ptr # NULL
    /\ Live(lastCall.self) /\ inst[lastCall.self].list_ptr # NULL

\* C7: a clone holds the entries of its source in the same order, and a call
\* on one list (a mutation, a clone of it, its drop) leaves the handle and
\* the entries of every other live list unchanged.
C7_CloneIndependent ==
    [][/\ lastCall'.op = "clone"
            => Contents(heap', inst'[lastCall'.self].list_ptr)
                  = Contents(heap', inst'[lastCall'.src].list_ptr)
       /\ \A i \in Insts :
            (Live(i) /\ lastCall'.self # i)
                => /\ inst'[i] = inst[i]
                   /\ ValidHandle(heap', inst'[i].list_ptr)
                   /\ Contents(heap', inst'[i].list_ptr) = Contents(heap, inst[i].list_ptr)
      ]_vars

\* a clone was mutated and now differs from its live, non-empty source
C7_Witness ==
    /\ lastCall.op = "set_name_value" /\ lastCall.result = "Ok"
    /\ Live(lastCall.self) /\ lastCall.src # 0
    /\ Live(lastCall.src)
    /\ Entries(lastCall.src) # <<>>
    /\ Entries(lastCall.src) # Entries(lastCall.self)

\* ------------------------------------------------- what the claims speak of
ValidName(name) == \A n \in 1..Len(name) : name[n] \in AsciiAlnum \cup {"_"}
HasCRLF(value)  == \E n \in 1..Len(value) : value[n] \in {"CR", "LF"}
HasNul(str)     == \E n \in 1..Len(str) : str[n] = "NUL"

LastSet == lastCall.op = "set_name_value"
LastFetchAfterSet ==
    fetch_name_value(heap, inst[lastCall.self].list_ptr, lastCall.name)

\* the entries of strs whose key is key
WithKey(strs, key) == {n \in 1..Len(strs) : HasKey(strs[n], key)}

\* C3 as stated: for every valid pair (name of ASCII alphanumerics and
\* underscore, value without CR or LF) set_name_value succeeds and a
\* following fetch_name_value(name) returns the value.
C3_AsStated ==
    (LastSet /\ ValidName(lastCall.name) /\ ~HasCRLF(lastCall.value))
        => /\ lastCall.result = "Ok"
           /\ LastFetchAfterSet.result = "Ok"
           /\ LastFetchAfterSet.some
           /\ LastFetchAfterSet.value = lastCall.value

\* C3 amended: for every name of ASCII alphanumerics and underscore and
\* every value without CR, LF or a null byte, set_name_value succeeds and a
\* following fetch_name_value(name) returns the value.
C3_SetThenFetch ==
    (LastSet /\ ValidName(lastCall.name) /\ ~HasCRLF(lastCall.value)
        /\ ~HasNul(lastCall.value))
        => /\ lastCall.result = "Ok"
           /\ LastFetchAfterSet.result = "Ok"
           /\ LastFetchAfterSet.some
           /\ LastFetchAfterSet.value = lastCall.value

\* a value with '=' in it was set on a list that held other entries
C3_Witness ==
    /\ LastSet /\ lastCall.result = "Ok"
    /\ lastCall.value = <<"=", "2">>
    /\ Len(Entries(lastCall.self)) >= 2
    /\ LastFetchAfterSet.value = <<"=", "2">>

\* C4 as stated: a successful set_name_value that follows a successful
\* set_name_value of the same key and another value leaves exactly one entry
\* of that key, holding the latest value, and len() as it was after the
\* first call.
C4_AsStated ==
    [][lastCall'.again
        => /\ Cardinality(WithKey(Contents(heap', inst'[lastCall'.self].list_ptr),
                                  lastCall'.name)) = 1
           /\ fetch_name_value(heap', inst'[lastCall'.self].list_ptr, lastCall'.name).value
                 = lastCall'.value
           /\ len(heap', inst'[lastCall'.self].list_ptr)
                 = len(heap, inst[lastCall'.self].list_ptr)
      ]_vars

\* C4 amended: the same, for a list that held at most one entry of that key
\* before the first call (so exactly one after it).
C4_LastWriteWins ==
    [][(/\ lastCall'.again
        /\ Cardinality(WithKey(Contents(heap, inst[lastCall'.self].list_ptr),
                               lastCall'.name)) = 1)
        => /\ Cardinality(WithKey(Contents(heap', inst'[lastCall'.self].list_ptr),
                                  lastCall'.name)) = 1
           /\ fetch_name_value(heap', inst'[lastCall'.self].list_ptr, lastCall'.name).value
                 = lastCall'.value
           /\ len(heap', inst'[lastCall'.self].list_ptr)
                 = len(heap, inst[lastCall'.self].list_ptr)
      ]_vars

\* the same key was set twice in a row, among other entries
C4_Witness ==
    /\ lastCall.again
    /\ Len(Entries(lastCall.self)) >= 2
    /\ Cardinality(WithKey(Entries(lastCall.self), lastCall.name)) = 1

\* C5: a set_name_value or add_string that fails made no foreign call and
\* left the handle and the foreign heap (so the entries and len()) as they
\* were.
C5_FailedMutationNoEffect ==
    [][(lastCall'.op \in {"set_name_value", "add_string"} /\ lastCall'.result # "Ok")
        => /\ lastCall'.ffi = <<>>
           /\ inst' = inst
           /\ heap' = heap
      ]_vars

\* a mutation of a non-empty list failed on an embedded null byte
C5_Witness ==
    /\ lastCall.op \in {"set_name_value", "add_string"}
    /\ lastCall.result = "NulError"
    /\ Entries(lastCall.self) # <<>>

\* C6: set_name_value fails with the invalid-argument error, without a
\* foreign call, when the name has a character that is neither an ASCII
\* alphanumeric nor underscore or the value has a CR or LF; it succeeds for
\* every other name and value that have no null byte.
C6_SetNameValuePreconditions ==
    LastSet =>
        /\ (~ValidName(lastCall.name) \/ HasCRLF(lastCall.value))
              => (lastCall.result = "BadArgument" /\ lastCall.ffi = <<>>)
        /\ (ValidName(lastCall.name) /\ ~HasCRLF(lastCall.value)
              /\ ~HasNul(lastCall.name) /\ ~HasNul(lastCall.value))
              => lastCall.result = "Ok"

\* a valid name with a value holding a carriage return was refused
C6_Witness ==
    /\ LastSet /\ lastCall.result = "BadArgument"
    /\ ValidName(lastCall.name) /\ lastCall.value = <<"CR">>
    /\ Entries(lastCall.self) # <<>>

\* C8 as stated: when next() first returns None the iterator has yielded
\* len() pairs, one per entry in list order.
C8_AsStated ==
    (it.active /\ it.nones >= 1)
        => /\ Len(it.yielded) = len(heap, inst[it.list].list_ptr)
           /\ \A n \in 1..Len(it.yielded) :
                 it.yielded[n][1] \o <<"=">> \o it.yielded[n][2] = Entries(it.list)[n]

\* C9 as stated: once next() has returned None, every later next() returns
\* None.
C9_AsStated == (it.active /\ it.nones >= 1) => it.last = "None"

\* C10 as stated: fetch_name_value of a key that was never put into the
\* list returns Ok(None).
C10_AsStated ==
    (lastCall.op = "fetch_name_value" /\ Fold(lastCall.name) \notin inserted[lastCall.self])
        => (lastCall.result = "Ok" /\ ~lastCall.some)

\* C10 amended: fetch_name_value of a key without a null byte that was
\* never put into the list returns Ok(None).
C10_AbsentKey ==
    (lastCall.op = "fetch_name_value" /\ ~HasNul(lastCall.name)
        /\ Fold(lastCall.name) \notin inserted[lastCall.self])
        => (lastCall.result = "Ok" /\ ~lastCall.some)

\* a key never put into a list of two entries was looked up
C10_Witness ==
    /\ lastCall.op = "fetch_name_value" /\ ~HasNul(lastCall.name)
    /\ Fold(lastCall.name) \notin inserted[lastCall.self]
    /\ Len(Entries(lastCall.self)) = 2
    /\ lastCall.result = "Ok" /\ ~lastCall.some

\* C11: a list that new() just made has len() 0; a list that only
\* set_name_value (directly or through try_from) has written has as many
\* entries as keys were put into it, keys being told apart as the allocator
\* tells them apart; and is_empty() is true exactly when len() is 0.
C11_LenCountsKeys ==
    /\ lastCall.op = "new" => len(heap, inst[lastCall.self].list_ptr) = 0
    /\ \A i \in Insts :
          Live(i) =>
            /\ ~added[i] => len(heap, inst[i].list_ptr) = Cardinality(inserted[i])
            /\ is_empty(heap, inst[i].list_ptr) <=> len(heap, inst[i].list_ptr) = 0
            /\ is_empty(heap, inst[i].list_ptr) <=> Entries(i) = <<>>

\* two keys are in a list that set_name_value alone has written, and the
\* last call overwrote the value of one of them
C11_Witness ==
    /\ Live(1) /\ ~added[1]
    /\ lastCall.op = "set_name_value" /\ lastCall.result = "Ok" /\ lastCall.again
    /\ Cardinality(inserted[1]) = 2
    /\ len(heap, inst[1].list_ptr) = 2
    /\ ~is_empty(heap, inst[1].list_ptr)

PairValid(pr) == ValidName(pr[1]) /\ ~HasCRLF(pr[2]) /\ ~HasNul(pr[2])
FirstInvalid(pairs) ==
    CHOOSE k \in 1..Len(pairs) :
        ~PairValid(pairs[k]) /\ \A n \in 1..(k - 1) : PairValid(pairs[n])

\* C12: a try_from over pairs of which one is invalid returns the error of
\* the first invalid pair and no list; the foreign calls it made are one
\* set-by-key per pair before that one, none for the pairs after it, and
\* then exactly one destroy, of the list built so far; no allocation is left
\* without a list that holds it, and no call was handed a released handle.
C12_TryFromAtomic ==
    (lastCall.op = "try_from" /\ \E n \in 1..Len(lastCall.pairs) : ~PairValid(lastCall.pairs[n]))
    => LET k == FirstInvalid(lastCall.pairs)
           bad == lastCall.pairs[k]
       IN  /\ lastCall.result = IF ~ValidName(bad[1]) \/ HasCRLF(bad[2])
                                THEN "BadArgument" ELSE "NulError"
           /\ ~Live(lastCall.self) /\ inst[lastCall.self].list_ptr = NULL
           /\ lastCall.ffi = [n \in 1..(k - 1) |-> "CSLSetNameValue"] \o <<"CSLDestroy">>
           /\ \A h \in Handles : heap[h].state = "live" => Owners(h) # {}
           /\ ~ffiFault

\* try_from failed at its second pair: the list that held the first pair was
\* built and released
C12_Witness ==
    /\ lastCall.op = "try_from" /\ lastCall.result = "NulError"
    /\ Len(lastCall.pairs) = 2 /\ PairValid(lastCall.pairs[1])
    /\ lastCall.ffi = <<"CSLSetNameValue", "CSLDestroy">>
    /\ \E h \in Handles : heap[h].state = "freed"
    /\ \A h \in Handles : heap[h].state # "live"

\* C13: add_string of a value without a null byte succeeds, and the list
\* afterwards is the list before with the value, as given, as one more last
\* entry: one entry longer, earlier entries as they were, whether or not the
\* value or its key was in the list already.
C13_AddStringAppends ==
    [][(lastCall'.op = "add_string" /\ ~HasNul(lastCall'.value))
       => LET i == lastCall'.self
              before == Contents(heap, inst[i].list_ptr)
              after == Contents(heap', inst'[i].list_ptr)
          IN  /\ lastCall'.result = "Ok"
              /\ after = Append(before, lastCall'.value)
              /\ len(heap', inst'[i].list_ptr) = len(heap, inst[i].list_ptr) + 1
              /\ \A n \in 1..Len(before) : after[n] = before[n]]_vars

\* add_string has put a KEY=VALUE string after an identical entry
C13_Witness ==
    /\ lastCall.op = "add_string" /\ lastCall.result = "Ok"
    /\ EqPos(lastCall.value) > 0
    /\ Entries(lastCall.self) = <<lastCall.value, lastCall.value>>

\* the entries of strs, each followed by a line feed
RECURSIVE Joined(_)
Joined(strs) == IF strs = <<>> THEN <<>> ELSE Head(strs) \o <<"LF">> \o Joined(Tail(strs))

\* C14 as stated: the text that Debug writes has one line per entry, len()
\* lines in all, and the entries of the form KEY=VALUE are lines of it, in
\* list order: when every entry is of that form the text is the entries,
\* each followed by a line feed.
C14_AsStated ==
    lastCall.op = "fmt"
    => LET strs == Entries(lastCall.self)
           text == lastCall.ret
       IN  /\ Cardinality({n \in 1..Len(text) : text[n] = "LF"})
                  = len(heap, inst[lastCall.self].list_ptr)
           /\ (\A n \in 1..Len(strs) : EqPos(strs[n]) > 0) => text = Joined(strs)

\* new() followed by set_name_value(k, v) for pairs[k..] in order, on the
\* list with handle p: the entry sequences it can end with
RECURSIVE EntriesAfterSets(_, _, _, _)
EntriesAfterSets(hp, p, pairs, k) ==
    IF k > Len(pairs) THEN {Contents(hp, p)}
    ELSE UNION {EntriesAfterSets(o.heap, o.list_ptr, pairs, k + 1) :
                  o \in set_name_value(hp, p, pairs[k][1], pairs[k][2])}

EmptyHeap == [h \in Handles |-> [state |-> "unalloc", strs |-> <<>>]]

\* C15: a try_from over valid pairs returns a list, and its entries (hence
\* its len() and what fetch_name_value finds) are the entries of a new()
\* list after set_name_value of each pair in order; when the keys of the
\* pairs differ, len() is the number of pairs and fetch_name_value of each
\* key returns the value of its pair.
C15_TryFromAsSets ==
    (lastCall.op = "try_from" /\ \A n \in 1..Len(lastCall.pairs) : PairValid(lastCall.pairs[n]))
    => LET pairs == lastCall.pairs
           p == inst[lastCall.self].list_ptr
       IN  /\ lastCall.result = "Ok" /\ Live(lastCall.self)
           /\ EntriesAfterSets(EmptyHeap, new.list_ptr, pairs, 1) = {Contents(heap, p)}
           /\ (\A m, n \in 1..Len(pairs) : m # n => ~KeyEq(pairs[m][1], pairs[n][1]))
              => /\ len(heap, p) = Len(pairs)
                 /\ \A n \in 1..Len(pairs) :
                       LET r == fetch_name_value(heap, p, pairs[n][1])
                       IN  r.result = "Ok" /\ r.some /\ r.value = pairs[n][2]

\* try_from has returned a list built from two pairs of different keys
C15_Witness ==
    /\ lastCall.op = "try_from" /\ lastCall.result = "Ok"
    /\ Len(lastCall.pairs) = 2
    /\ ~KeyEq(lastCall.pairs[1][1], lastCall.pairs[2][1])
    /\ len(heap, inst[lastCall.self].list_ptr) = 2

ReadOps == {"iter", "next", "fetch_name_value", "len", "is_empty", "as_ptr", "fmt", "clone"}

\* C16: iter(), next(), fetch_name_value, len, is_empty, as_ptr, Debug and
\* clone leave the list they read (for clone, the list that is copied) as it
\* was: the same handle, the same allocation with the same entries, and no
\* set-by-key or append-raw call was made.
C16_ReadsLeaveList ==
    [][lastCall'.op \in ReadOps
       => LET i == IF lastCall'.op = "clone" THEN lastCall'.src ELSE lastCall'.self
              p == inst[i].list_ptr
          IN  /\ inst'[i] = inst[i]
              /\ Contents(heap', inst'[i].list_ptr) = Contents(heap, p)
              /\ p # NULL => heap'[p] = heap[p]
              /\ \A n \in 1..Len(lastCall'.ffi) :
                    lastCall'.ffi[n] \notin {"CSLSetNameValue", "CSLAddString"}]_vars

\* a list of two entries was cloned while its iterator was part of the way
\* through it, and list and iterator are as they were
C16_Witness ==
    /\ lastCall.op = "clone" /\ Live(lastCall.src) /\ Live(lastCall.self)
    /\ Len(Entries(lastCall.src)) = 2
    /\ Entries(lastCall.self) = Entries(lastCall.src)
    /\ it.active /\ it.list = lastCall.src /\ it.idx = 1 /\ it.count = 2

\* strs without its entry n
Without(strs, n) == SubSeq(strs, 1, n - 1) \o SubSeq(strs, n + 1, Len(strs))

\* the keys, as written, of the KEY=VALUE entries of strs
WrittenKeys(strs) ==
    {SubSeq(strs[m], 1, EqPos(strs[m]) - 1) : m \in {k \in 1..Len(strs) : EqPos(strs[k]) > 0}}

\* C17: a successful set_name_value(name, value) changes one entry at most:
\* when name was in the list, the first entry of that key becomes NAME=VALUE
\* where it stood and the list keeps its length; when it was not, NAME=VALUE
\* becomes the last entry; every other entry keeps its content and its place
\* among the others, and fetch_name_value of every other key in the list
\* returns what it returned before.
C17_SetChangesOneEntry ==
    [][(lastCall'.op = "set_name_value" /\ lastCall'.result = "Ok")
       => LET i == lastCall'.self
              name == lastCall'.name
              e == name \o <<"=">> \o lastCall'.value
              before == Contents(heap, inst[i].list_ptr)
              after == Contents(heap', inst'[i].list_ptr)
              n == FindKey(before, name)
          IN  /\ IF n = 0
                 THEN after = Append(before, e)
                 ELSE /\ Len(after) = Len(before)
                      /\ after[n] = e
                      /\ Without(after, n) = Without(before, n)
              /\ \A k \in WrittenKeys(before) :
                    ~KeyEq(k, name)
                    => fetch_name_value(heap', inst'[i].list_ptr, k)
                          = fetch_name_value(heap, inst[i].list_ptr, k)]_vars

\* set_name_value has overwritten the first of two entries, the second
\* being of another key or of none
C17_Witness ==
    /\ lastCall.op = "set_name_value" /\ lastCall.result = "Ok"
    /\ Len(Entries(lastCall.self)) = 2
    /\ Entries(lastCall.self)[1] = lastCall.name \o <<"=">> \o lastCall.value
    /\ ~HasKey(Entries(lastCall.self)[2], lastCall.name)

\* C18: while an iterator is alive its idx is between 0 and its count, its
\* count is the len() of the list it borrows and is the count it was made
\* with; no read of the array left it, and when there is an entry still to
\* be read (idx < count) the handle is not null and the array has count
\* entries at least; one step moves idx by 0 or by 1.
C18_IteratorInBounds ==
    [][it'.active
       => LET p == inst'[it'.list].list_ptr
          IN  /\ 0 <= it'.idx /\ it'.idx <= it'.count
              /\ it'.count = len(heap', p)
              /\ ~it'.oob
              /\ it'.idx < it'.count => (p # NULL /\ Len(Contents(heap', p)) >= it'.count)
              /\ it.active => (it'.count = it.count /\ it'.idx \in {it.idx, it.idx + 1})]_vars

\* the iterator has returned both pairs of a list of two and then None
C18_Witness ==
    /\ it.active /\ it.count = 2 /\ it.idx = 2
    /\ lastCall.op = "next" /\ it.last = "None"
    /\ Len(it.yielded) = 2

\* C19: from one step to the next the len() of a list grows by 0 or 1 when
\* the step is a successful set_name_value on it, by exactly 1 when it is a
\* successful add_string on it, and stays as it is on every other step, so
\* that it never gets smaller; and a list holds the null handle exactly when
\* its len() is 0.
C19_LenNeverDecreases ==
    [][\A i \in Insts :
         /\ inst'[i].status = "live"
            => (inst'[i].list_ptr = NULL <=> len(heap', inst'[i].list_ptr) = 0)
         /\ (Live(i) /\ inst'[i].status = "live")
            => LET d == len(heap', inst'[i].list_ptr) - len(heap, inst[i].list_ptr)
                   mine == lastCall'.self = i /\ lastCall'.result = "Ok"
               IN  IF mine /\ lastCall'.op = "set_name_value" THEN d \in {0, 1}
                   ELSE IF mine /\ lastCall'.op = "add_string" THEN d = 1
                   ELSE d = 0]_vars

\* a list of two entries, the second put by add_string, has been read by
\* len() since
C19_Witness ==
    /\ lastCall.op = "len" /\ lastCall.ret = <<2>>
    /\ Live(lastCall.self) /\ added[lastCall.self]
    /\ inst[lastCall.self].list_ptr # NULL
    /\ Cardinality(inserted[lastCall.self]) = 1


====
